---- MODULE Spec2Model ----
(***************************************************************************)
(* gobarberWEBGS11: the toast component with its expiry timer, and the     *)
(* submit handlers of the sign-in, sign-up and profile pages.              *)
(*                                                                         *)
(* The browser runs one task at a time; every action below is one task     *)
(* (an event handler, a timer callback, a promise continuation together    *)
(* with the microtasks it schedules).                                      *)
(***************************************************************************)
EXTENDS Naturals, Integers, Sequences, FiniteSets, TLC

(* ----------------------------- bounds ---------------------------------- *)
\* toast identifiers that may be alive at once
MaxToasts == 2
\* asynchronous handler instances (submissions, avatar uploads) alive at once
MaxSlots == 2

(* ------------------------ program constants ---------------------------- *)
\* setTimeout(..., 3000): three units of 1000 ms
ToastTimeout == 3
\* Yup.string().min(6, ...) and val.length >= 6
MinPasswordLength == 6

Ids == 1..MaxToasts
Slots == 1..MaxSlots
Screens == {"SignIn", "SignUp", "Profile"}

VARIABLES
  messages,   \* the notification list: sequence of [id, type, title]
  mounted,    \* ids whose Toast component is mounted
  armed,      \* ids whose setTimeout is pending
  remaining,  \* id -> time units left on its timer
  lastRemove, \* the latest removeToast call: who called, for which id, was it listed
  page,       \* the page component that is mounted
  fields,     \* the values the inputs of its form hold
  errors,     \* field errors of the mounted form: field -> message
  last,       \* the submission the mounted form handled last
  signInPc,   \* position of the sign-in handler between its two awaits
  handlers,   \* slot -> the asynchronous handler awaiting a response
  requests,   \* HTTP requests in flight
  avatarSet   \* updateUser was called with an avatar response

toastVars == <<messages, mounted, armed, remaining, lastRemove>>
formVars == <<page, fields, errors, last, signInPc, handlers, requests, avatarSet>>
vars == <<messages, mounted, armed, remaining, lastRemove, page, fields, errors, last,
          signInPc,
          handlers, requests, avatarSet>>

(* ----------------------- the notification list ------------------------- *)
RECURSIVE SelectIds(_)
SelectIds(list) ==
  IF list = <<>> THEN {} ELSE {Head(list).id} \cup SelectIds(Tail(list))

InList(t) == t \in SelectIds(messages)

\* an identifier no live toast carries (uuid())
FreeIds == {t \in Ids : ~InList(t) /\ t \notin mounted /\ t \notin armed}
FreshId == CHOOSE t \in FreeIds : \A u \in FreeIds : t <= u

\* addToast: a fresh identifier, appended at the end of the list
addToast(list, type, title) ==
  Append(list, [id |-> FreshId, type |-> type, title |-> title])

RECURSIVE FilterOut(_, _)
FilterOut(list, id) ==
  IF list = <<>> THEN <<>>
  ELSE IF Head(list).id = id THEN FilterOut(Tail(list), id)
       ELSE <<Head(list)>> \o FilterOut(Tail(list), id)

\* removeToast: the list without the entry of that identifier
removeToast(list, id) == FilterOut(list, id)

(* --------------------------- Toast component --------------------------- *)
\* some part of the application notifies the user
AddToast ==
  /\ FreeIds # {}
  /\ messages' = addToast(messages, "info", "notice")
  /\ UNCHANGED <<mounted, armed, remaining, lastRemove>>
  /\ UNCHANGED formVars

\* Mount with the effect's setTimeout left out
MountNoTimer(t) ==
  /\ InList(t)
  /\ t \notin mounted
  /\ mounted' = mounted \cup {t}
  /\ UNCHANGED <<messages, armed, remaining, lastRemove>>
  /\ UNCHANGED formVars

\* the component of a listed message mounts; its effect starts the timer
Mount(t) ==
  /\ InList(t)
  /\ t \notin mounted
  /\ mounted' = mounted \cup {t}
  /\ armed' = armed \cup {t}
  /\ remaining' = [remaining EXCEPT ![t] = ToastTimeout]
  /\ UNCHANGED <<messages, lastRemove>>
  /\ UNCHANGED formVars

\* one unit of time passes; a timer that is due fires before time moves on
Tick ==
  /\ armed # {}
  /\ \A t \in armed : remaining[t] > 0
  /\ remaining' = [t \in Ids |-> IF t \in armed THEN remaining[t] - 1
                                 ELSE remaining[t]]
  /\ UNCHANGED <<messages, mounted, armed, lastRemove>>
  /\ UNCHANGED formVars

\* TimerExpire removing the oldest message instead of its own
TimerExpireOldest(t) ==
  /\ t \in armed
  /\ remaining[t] = 0
  /\ armed' = armed \ {t}
  /\ messages' = IF messages = <<>> THEN messages ELSE Tail(messages)
  /\ lastRemove' = [by |-> "timer", id |-> t, listed |-> InList(t)]
  /\ UNCHANGED <<mounted, remaining>>
  /\ UNCHANGED formVars

\* the timer callback: removeToast(toast.id)
TimerExpire(t) ==
  /\ t \in armed
  /\ remaining[t] = 0
  /\ armed' = armed \ {t}
  /\ messages' = removeToast(messages, t)
  /\ lastRemove' = [by |-> "timer", id |-> t, listed |-> InList(t)]
  /\ UNCHANGED <<mounted, remaining>>
  /\ UNCHANGED formVars

\* the dismiss button: removeToast(toast.id)
Dismiss(t) ==
  /\ t \in mounted
  /\ InList(t)
  /\ messages' = removeToast(messages, t)
  /\ lastRemove' = [by |-> "button", id |-> t, listed |-> InList(t)]
  /\ UNCHANGED <<mounted, armed, remaining>>
  /\ UNCHANGED formVars

\* Teardown with the effect's cleanup left out
TeardownNoClear(t) ==
  /\ t \in mounted
  /\ ~InList(t)
  /\ mounted' = mounted \ {t}
  /\ UNCHANGED <<messages, armed, remaining, lastRemove>>
  /\ UNCHANGED formVars

\* the component of an unlisted message unmounts; the cleanup clears the timer
Teardown(t) ==
  /\ t \in mounted
  /\ ~InList(t)
  /\ mounted' = mounted \ {t}
  /\ armed' = armed \ {t}
  /\ UNCHANGED <<messages, remaining, lastRemove>>
  /\ UNCHANGED formVars

(* ------------------------------ form data ------------------------------ *)
\* a string is the sequence of its characters
Empty == <<>>
Names == {Empty, <<"a">>}
Address == <<"a", "@", "b", ".", "c">>
Emails == {Empty, <<"a", "b">>, Address}
Short == <<"1", "2", "3", "4", "5">>
Secret == <<"1", "2", "3", "4", "5", "6">>
Passwords == {Empty, Short, Secret}

SignInData == [email : Emails, password : {Empty, Secret}]
SignUpData == [name : Names, email : Emails, password : Passwords]
ProfileData == [name : Names, email : Emails, old_password : {Empty, Secret},
                password : Passwords, password_confirmation : Passwords]

(* --------------------------- schema validation ------------------------- *)
\* required() accepting every defined value
RequiredDefined(v) == Len(v) >= 0

\* Yup.string().required(): a present, non-empty string
Required(v) == Len(v) > 0

\* Yup.string().email(): the empty string is left to required(); otherwise
\* one "@" after a non-empty local part, and a domain of a label, a dot and
\* a further label
IsEmail(v) ==
  \/ v = Empty
  \/ \E i \in 2..Len(v) :
       /\ v[i] = "@"
       /\ \A k \in 1..Len(v) : v[k] = "@" => k = i
       /\ \E j \in (i + 2)..(Len(v) - 1) : v[j] = "."
       /\ v[1] # "." /\ v[i - 1] # "." /\ v[i + 1] # "." /\ v[Len(v)] # "."

\* Yup.string().min(6)
MinLength(v) == Len(v) >= MinPasswordLength

\* the profile's test('len', ...): val ? val.length >= 6 : true
PasswordLen(v) == IF v # Empty THEN Len(v) >= MinPasswordLength ELSE TRUE

\* the when() condition holding whatever the password is
PasswordGivenAlways(val) == Len(val) >= 0

\* when('password', {is: val => !!val.length, ...})
PasswordGiven(val) == Len(val) # 0

\* oneOf() letting the empty string through like undefined
MatchesPasswordOrEmpty(v, password) == v = password \/ v = Empty

\* oneOf([Yup.ref('password'), undefined]): a defined value must be the password
MatchesPassword(v, password) == v = password

Issue(ok, path, message) ==
  IF ok THEN <<>> ELSE <<[path |-> path, message |-> message]>>

\* schema.validate(data, {abortEarly: false}): every failing test, as the
\* inner errors of the ValidationError; <<>> when the data is valid
ValidateSignIn(data) ==
  Issue(IsEmail(data.email), "email", "Digite um email válido")
  \o Issue(Required(data.email), "email", "Email Obrigatório")
  \o Issue(Required(data.password), "password", "Senha obrigatória")

ValidateSignUp(data) ==
  Issue(Required(data.name), "name", "Nome Obrigatório")
  \o Issue(IsEmail(data.email), "email", "Digite um email válido")
  \o Issue(Required(data.email), "email", "Email Obrigatório")
  \o Issue(MinLength(data.password), "password", "No mínimo 6 dígitos")

ValidateProfile(data) ==
  Issue(Required(data.name), "name", "Nome Obrigatório")
  \o Issue(IsEmail(data.email), "email", "Digite um email válido")
  \o Issue(Required(data.email), "email", "Email Obrigatório")
  \o Issue(PasswordGiven(data.password) => Required(data.old_password),
           "old_password", "Obrigatório ao informar a nova senha")
  \o Issue(PasswordLen(data.password), "password", "Senha maior que 6 caracteres")
  \o Issue(MatchesPassword(data.password_confirmation, data.password),
           "password_confirmation", "Confirme a nova senha")

\* getValidationErrors: each inner error's message under its path, a later
\* error replacing an earlier one of the same path
RECURSIVE getValidationErrors(_)
getValidationErrors(inner) ==
  IF inner = <<>> THEN <<>>
  ELSE LET n == Len(inner)
           rest == getValidationErrors(SubSeq(inner, 1, n - 1))
       IN [p \in DOMAIN rest \cup {inner[n].path} |->
             IF p = inner[n].path THEN inner[n].message ELSE rest[p]]

(* ------------------------------- pages --------------------------------- *)
\* what the latest run of the form's submit handler did
NoSubmission ==
  [done |-> FALSE, rejected |-> FALSE, fieldErrors |-> <<>>, sent |-> 0,
   slot |-> 0]

Idle == [pc |-> "idle", screen |-> "none"]
FreeSlots == {s \in Slots : handlers[s] = Idle}
FreeSlot == CHOOSE s \in FreeSlots : \A u \in FreeSlots : s <= u

Request(slot, seq, screen, method, url, body) ==
  [slot |-> slot, seq |-> seq, screen |-> screen, method |-> method,
   url |-> url, body |-> body, status |-> "pending"]

\* SignInSubmit clearing the errors: setErrors({})
SignInSubmitClear(data) ==
  /\ page = "SignIn"
  /\ signInPc = "idle"
  /\ errors' = <<>>
  /\ signInPc' = "validate"
  /\ last' = NoSubmission
  /\ UNCHANGED <<page, fields, handlers, requests, avatarSet>>
  /\ UNCHANGED toastVars

\* SignIn.handleSubmit up to its await: setErrors({name: ...}), validate
SignInSubmit(data) ==
  /\ page = "SignIn"
  /\ signInPc = "idle"
  /\ errors' = [name |-> "Nome obrigatório"]
  /\ signInPc' = "validate"
  /\ last' = NoSubmission
  /\ UNCHANGED <<page, fields, handlers, requests, avatarSet>>
  /\ UNCHANGED toastVars

\* SignIn.handleSubmit after the await: nothing on success, the catch otherwise
SignInValidated(data) ==
  /\ signInPc = "validate"
  /\ LET inner == ValidateSignIn(data)
     IN IF inner = <<>>
        THEN /\ errors' = errors
             /\ last' = [last EXCEPT !.done = TRUE]
        ELSE /\ errors' = getValidationErrors(inner)
             /\ last' = [last EXCEPT !.done = TRUE, !.rejected = TRUE,
                                     !.fieldErrors = getValidationErrors(inner)]
  /\ signInPc' = "idle"
  /\ UNCHANGED <<page, fields, handlers, requests, avatarSet>>
  /\ UNCHANGED toastVars

\* SignUpSubmit whose catch lacks the return after setErrors
SignUpSubmitNoReturn(data) ==
  /\ page = "SignUp"
  /\ signInPc = "idle"
  /\ LET inner == ValidateSignUp(data)
     IN IF inner # <<>>
        THEN /\ errors' = getValidationErrors(inner)
             /\ last' = [NoSubmission EXCEPT !.done = TRUE, !.rejected = TRUE,
                           !.fieldErrors = getValidationErrors(inner)]
             /\ FreeIds # {}
             /\ messages' = addToast(messages, "error", "Erro ao cadastrar perfil")
             /\ UNCHANGED <<handlers, requests>>
        ELSE /\ FreeSlots # {}
             /\ requests' = requests \cup
                  {Request(FreeSlot, 1, "SignUp", "post", "/users", data)}
             /\ handlers' = [handlers EXCEPT ![FreeSlot] =
                               [pc |-> "awaitPost", screen |-> "SignUp"]]
             /\ last' = [NoSubmission EXCEPT !.done = TRUE, !.sent = 1,
                           !.slot = FreeSlot]
             /\ UNCHANGED <<errors, messages>>
  /\ UNCHANGED <<page, fields, signInPc, avatarSet>>
  /\ UNCHANGED <<mounted, armed, remaining, lastRemove>>

\* SignUpSubmit posting the account twice
SignUpSubmitTwice(data) ==
  /\ page = "SignUp"
  /\ signInPc = "idle"
  /\ LET inner == ValidateSignUp(data)
     IN IF inner # <<>>
        THEN /\ errors' = getValidationErrors(inner)
             /\ last' = [NoSubmission EXCEPT !.done = TRUE, !.rejected = TRUE,
                           !.fieldErrors = getValidationErrors(inner)]
             /\ UNCHANGED <<handlers, requests>>
        ELSE /\ FreeSlots # {}
             /\ requests' = requests \cup
                  {Request(FreeSlot, 1, "SignUp", "post", "/users", data),
                   Request(FreeSlot, 2, "SignUp", "post", "/users", data)}
             /\ handlers' = [handlers EXCEPT ![FreeSlot] =
                               [pc |-> "awaitPost", screen |-> "SignUp"]]
             /\ last' = [NoSubmission EXCEPT !.done = TRUE, !.sent = 2,
                           !.slot = FreeSlot]
             /\ UNCHANGED errors
  /\ UNCHANGED <<page, fields, signInPc, avatarSet>>
  /\ UNCHANGED toastVars

\* SignUp handleSubmit up to the await of api.post
SignUpSubmit(data) ==
  /\ page = "SignUp"
  /\ signInPc = "idle"
  /\ LET inner == ValidateSignUp(data)
     IN IF inner # <<>>
        THEN /\ errors' = getValidationErrors(inner)
             /\ last' = [NoSubmission EXCEPT !.done = TRUE, !.rejected = TRUE,
                           !.fieldErrors = getValidationErrors(inner)]
             /\ UNCHANGED <<handlers, requests>>
        ELSE /\ FreeSlots # {}
             /\ requests' = requests \cup
                  {Request(FreeSlot, 1, "SignUp", "post", "/users", data)}
             /\ handlers' = [handlers EXCEPT ![FreeSlot] =
                               [pc |-> "awaitPost", screen |-> "SignUp"]]
             /\ last' = [NoSubmission EXCEPT !.done = TRUE, !.sent = 1, !.slot = FreeSlot]
             /\ UNCHANGED errors
  /\ UNCHANGED <<page, fields, signInPc, avatarSet>>
  /\ UNCHANGED toastVars

\* the body Profile.handleSubmit sends: the passwords only with old_password
ProfileFormData(data) ==
  IF data.old_password # Empty
  THEN [name |-> data.name, email |-> data.email,
        old_password |-> data.old_password, password |-> data.password,
        password_confirmation |-> data.password_confirmation]
  ELSE [name |-> data.name, email |-> data.email]

\* Profile.handleSubmit up to the await of api.put
ProfileSubmit(data) ==
  /\ page = "Profile"
  /\ signInPc = "idle"
  /\ LET inner == ValidateProfile(data)
     IN IF inner # <<>>
        THEN /\ errors' = getValidationErrors(inner)
             /\ last' = [NoSubmission EXCEPT !.done = TRUE, !.rejected = TRUE,
                           !.fieldErrors = getValidationErrors(inner)]
             /\ UNCHANGED <<handlers, requests>>
        ELSE /\ FreeSlots # {}
             /\ requests' = requests \cup
                  {Request(FreeSlot, 1, "Profile", "put", "/profile",
                           ProfileFormData(data))}
             /\ handlers' = [handlers EXCEPT ![FreeSlot] =
                               [pc |-> "awaitPut", screen |-> "Profile"]]
             /\ last' = [NoSubmission EXCEPT !.done = TRUE, !.sent = 1, !.slot = FreeSlot]
             /\ UNCHANGED errors
  /\ UNCHANGED <<page, fields, signInPc, avatarSet>>
  /\ UNCHANGED toastVars

\* Profile.handleAvatarChange: one patch when the input holds files
AvatarChange(hasFiles) ==
  /\ page = "Profile"
  /\ signInPc = "idle"
  /\ IF hasFiles
     THEN /\ FreeSlots # {}
          /\ requests' = requests \cup
               {Request(FreeSlot, 1, "Profile", "patch", "/users/avatar", "avatar")}
          /\ handlers' = [handlers EXCEPT ![FreeSlot] =
                            [pc |-> "awaitPatch", screen |-> "Profile"]]
     ELSE UNCHANGED <<handlers, requests>>
  /\ UNCHANGED <<page, fields, errors, last, signInPc, avatarSet>>
  /\ UNCHANGED toastVars

\* the remote API answers a request
Respond(r, status) ==
  /\ r \in requests
  /\ r.status = "pending"
  /\ requests' = (requests \ {r}) \cup {[r EXCEPT !.status = status]}
  /\ UNCHANGED <<page, fields, errors, last, signInPc, handlers, avatarSet>>
  /\ UNCHANGED toastVars

Answered(slot) == {r \in requests : r.slot = slot /\ r.status # "pending"}

\* SignUp handleSubmit after the await of the request: the success toast and
\* history.push('/dashboard'), or the catch with the generic toast
SignUpSettle(slot) ==
  /\ signInPc = "idle"
  /\ handlers[slot].pc = "awaitPost"
  /\ \E r \in Answered(slot) :
       /\ requests' = requests \ {r}
       /\ handlers' = [handlers EXCEPT ![slot] = Idle]
       /\ FreeIds # {}
       /\ IF r.status = "ok"
          THEN /\ messages' = addToast(messages, "success", "Cadastro realizado")
               /\ page' = "Dashboard"
               /\ errors' = <<>>
               /\ last' = NoSubmission
          ELSE /\ messages' = addToast(messages, "error", "Erro ao cadastrar perfil")
               /\ UNCHANGED <<page, errors, last>>
  /\ UNCHANGED <<fields, signInPc, avatarSet>>
  /\ UNCHANGED <<mounted, armed, remaining, lastRemove>>

\* Profile.handleSubmit after the await of the request: the success toast and
\* history.push('/dashboard'), or the catch with the generic toast
ProfileSettle(slot) ==
  /\ signInPc = "idle"
  /\ handlers[slot].pc = "awaitPut"
  /\ \E r \in Answered(slot) :
       /\ requests' = requests \ {r}
       /\ handlers' = [handlers EXCEPT ![slot] = Idle]
       /\ FreeIds # {}
       /\ IF r.status = "ok"
          THEN /\ messages' = addToast(messages, "success", "Cadastro realizado")
               /\ page' = "Dashboard"
               /\ errors' = <<>>
               /\ last' = NoSubmission
          ELSE /\ messages' = addToast(messages, "error", "Erro ao cadastrar perfil")
               /\ UNCHANGED <<page, errors, last>>
  /\ UNCHANGED <<fields, signInPc, avatarSet>>
  /\ UNCHANGED <<mounted, armed, remaining, lastRemove>>

\* the then() of the avatar patch: updateUser and a toast; a failed patch
\* has no handler
AvatarSettle(slot) ==
  /\ signInPc = "idle"
  /\ handlers[slot].pc = "awaitPatch"
  /\ \E r \in Answered(slot) :
       /\ requests' = requests \ {r}
       /\ handlers' = [handlers EXCEPT ![slot] = Idle]
       /\ IF r.status = "ok"
          THEN /\ FreeIds # {}
               /\ avatarSet' = TRUE
               /\ messages' = addToast(messages, "success", "Avatar atualizado")
          ELSE UNCHANGED <<avatarSet, messages>>
  /\ UNCHANGED <<page, fields, errors, last, signInPc>>
  /\ UNCHANGED <<mounted, armed, remaining, lastRemove>>

(* --------------------------- specifications ---------------------------- *)
ToastInit ==
  /\ messages = <<>>
  /\ mounted = {}
  /\ armed = {}
  /\ remaining = [t \in Ids |-> 0]
  /\ lastRemove = [by |-> "nobody", id |-> 0, listed |-> FALSE]

\* the form of a page with its inputs filled in
DataOf(screen) ==
  CASE screen = "SignIn" -> SignInData
    [] screen = "SignUp" -> SignUpData
    [] screen = "Profile" -> ProfileData

FormInit ==
  /\ errors = <<>>
  /\ last = NoSubmission
  /\ signInPc = "idle"
  /\ handlers = [s \in Slots |-> Idle]
  /\ requests = {}
  /\ avatarSet = FALSE

\* the routed sign-in page, its inputs still empty
Init ==
  /\ ToastInit
  /\ FormInit
  /\ page = "SignIn"
  /\ fields = [email |-> Empty, password |-> Empty]

\* any of the pages, with any contents of its inputs
FormsInit ==
  /\ ToastInit
  /\ FormInit
  /\ page \in Screens
  /\ fields \in DataOf(page)

ToastNext ==
  \/ AddToast
  \/ \E t \in Ids : Mount(t)
  \/ Tick
  \/ \E t \in Ids : TimerExpire(t)
  \/ \E t \in Ids : Dismiss(t)
  \/ \E t \in Ids : Teardown(t)

FormNext ==
  \/ SignInSubmit(fields)
  \/ SignInValidated(fields)
  \/ SignUpSubmit(fields)
  \/ ProfileSubmit(fields)
  \/ \E hasFiles \in BOOLEAN : AvatarChange(hasFiles)
  \/ \E r \in requests, status \in {"ok", "failed"} : Respond(r, status)
  \/ \E slot \in Slots : SignUpSettle(slot)
  \/ \E slot \in Slots : ProfileSettle(slot)
  \/ \E slot \in Slots : AvatarSettle(slot)

\* the toast component alone
Spec == Init /\ [][ToastNext]_vars

\* the toast component with the scheduling the browser guarantees: a
\* rendered list mounts its items, time passes, a due timer fires
LiveSpec ==
  /\ Init
  /\ [][ToastNext]_vars
  /\ WF_vars(Tick)
  /\ \A t \in Ids : WF_vars(Mount(t)) /\ WF_vars(TimerExpire(t))

\* the pages and their handlers
FormSpec == FormsInit /\ [][FormNext]_vars

(* ------------------------------ properties ----------------------------- *)
IdsUnique(list) ==
  \A i, j \in 1..Len(list) : list[i].id = list[j].id => i = j

\* new is old without the entry of identifier t, the others in their order
IsRemovalOf(old, new, t) ==
  IF \E i \in 1..Len(old) : old[i].id = t
  THEN LET i == CHOOSE k \in 1..Len(old) : old[k].id = t
       IN new = [j \in 1..(Len(old) - 1) |-> IF j < i THEN old[j] ELSE old[j + 1]]
  ELSE new = old

\* the step is the firing of the timer of t
TimerFires(t) == t \in armed /\ t \notin armed' /\ t \in mounted'

\* C1: every toast in the list eventually leaves it; where nobody dismisses
\* it, the expiry of its three-unit countdown is what removes it
C1_ToastEventuallyRemoved == \A t \in Ids : InList(t) ~> ~InList(t)

\* the timer of a listed toast fired and took it off the list
C1_Witness ==
  /\ lastRemove.by = "timer"
  /\ lastRemove.listed
  /\ ~InList(lastRemove.id)
  /\ remaining[lastRemove.id] = 0

\* C2 (as stated): once a toast was dismissed, its timer never calls remove
\* for the identifier that is no longer listed
C2_NoTimerAfterDismiss == ~(lastRemove.by = "timer" /\ ~lastRemove.listed)

\* C2 (amended): the timer is cancelled by the teardown of the component and
\* by nothing else: no timer outlives its component, a dismissal takes the
\* toast off the list and leaves its timer pending, and neither a removal
\* nor a teardown touches the timers or entries of the other toasts
C2_TimerCancelledAtTeardown ==
  [][\A t \in Ids :
       /\ (t \in mounted /\ t \notin mounted') => t \notin armed'
       /\ t \in armed' => t \in mounted'
       /\ (InList(t) /\ ~InList(t)' /\ ~TimerFires(t)) =>
            (t \in armed' /\ remaining'[t] = remaining[t])
       /\ ((InList(t) /\ ~InList(t)') \/ (t \in mounted /\ t \notin mounted')) =>
            \A u \in Ids \ {t} :
              /\ (u \in armed) = (u \in armed')
              /\ remaining'[u] = remaining[u]
              /\ InList(u) = InList(u)']_vars

\* a dismissed toast was torn down with time left on its countdown
C2_Witness ==
  \E t \in Ids :
    /\ lastRemove = [by |-> "button", id |-> t, listed |-> TRUE]
    /\ t \notin mounted
    /\ t \notin armed
    /\ remaining[t] > 0

Validate(screen, data) ==
  CASE screen = "SignIn" -> ValidateSignIn(data)
    [] screen = "SignUp" -> ValidateSignUp(data)
    [] screen = "Profile" -> ValidateProfile(data)
    [] OTHER -> <<>>

RequiredFields(screen) ==
  CASE screen = "SignIn" -> {"email", "password"}
    [] screen = "SignUp" -> {"name", "email"}
    [] screen = "Profile" -> {"name", "email"}
    [] OTHER -> {}

SubmitRequests == {r \in requests : r.method # "patch"}

\* C3 (as stated): a submission whose values pass the schema of its screen
\* issued exactly one request
C3_ValidSubmissionOneRequest ==
  (last.done /\ Validate(page, fields) = <<>>) => last.sent = 1

\* C4: a submission with an empty required field is rejected, has issued no
\* request, and every empty required field carries an error
C4_MissingRequiredRejected ==
  (last.done /\ \E f \in RequiredFields(page) : fields[f] = Empty) =>
    /\ last.rejected
    /\ last.sent = 0
    /\ last.slot = 0
    /\ SubmitRequests = {}
    /\ \A f \in RequiredFields(page) :
         fields[f] = Empty => f \in DOMAIN errors /\ f \in DOMAIN last.fieldErrors

\* the profile was submitted without a name and the name field has its error
C4_Witness ==
  /\ page = "Profile"
  /\ last.done
  /\ fields.name = Empty
  /\ "name" \in DOMAIN errors
  /\ errors["name"] = "Nome Obrigatório"

\* C5: on the profile, old_password is in error exactly when a new password
\* is given and old_password is empty; without a new password the submission
\* is never rejected over old_password
C5_OldPasswordIffNewPassword ==
  (page = "Profile" /\ last.done) =>
    /\ (fields.password # Empty /\ fields.old_password = Empty) =>
         /\ last.rejected
         /\ last.sent = 0
         /\ "old_password" \in DOMAIN errors
         /\ errors["old_password"] = "Obrigatório ao informar a nova senha"
    /\ (fields.password = Empty \/ fields.old_password # Empty) =>
         "old_password" \notin DOMAIN last.fieldErrors
    /\ (/\ fields.password = Empty
        /\ fields.password_confirmation = Empty
        /\ fields.name # Empty
        /\ fields.email = Address) =>
         ~last.rejected /\ last.sent = 1

\* a new password without the old one was rejected on old_password
C5_Witness ==
  /\ page = "Profile"
  /\ last.done
  /\ fields.password = Secret
  /\ fields.old_password = Empty
  /\ "old_password" \in DOMAIN errors

\* C6: on the profile, a new password with a confirmation that differs from
\* it is rejected on password_confirmation and no request is issued
C6_ConfirmationMustMatch ==
  (/\ page = "Profile"
   /\ last.done
   /\ fields.password # Empty
   /\ fields.password_confirmation # fields.password) =>
    /\ last.rejected
    /\ last.sent = 0
    /\ SubmitRequests = {}
    /\ "password_confirmation" \in DOMAIN errors
    /\ errors["password_confirmation"] = "Confirme a nova senha"

\* a new password with an empty confirmation was rejected
C6_Witness ==
  /\ page = "Profile"
  /\ last.done
  /\ fields.password = Secret
  /\ fields.password_confirmation = Empty
  /\ "password_confirmation" \in DOMAIN errors

\* C7: a validation error goes to the fields and adds no notification; a
\* failed request of a submission adds exactly one error notification and
\* leaves the field errors alone
C7_ErrorPaths ==
  [][/\ (last'.done /\ last'.rejected /\ last' # last) =>
          /\ messages' = messages
          /\ requests' = requests
          /\ errors' = last'.fieldErrors
          /\ errors' # <<>>
     /\ \A r \in SubmitRequests :
          (r.status = "failed" /\ r \notin requests') =>
            /\ Len(messages') = Len(messages) + 1
            /\ SubSeq(messages', 1, Len(messages)) = messages
            /\ messages'[Len(messages')].type = "error"
            /\ messages'[Len(messages')].title = "Erro ao cadastrar perfil"
            /\ errors' = errors
            /\ last' = last
            /\ page' = page]_vars

\* a failed request of a submission left its error notification in the list
C7_Witness ==
  /\ \E i \in 1..Len(messages) :
       messages[i].type = "error" /\ messages[i].title = "Erro ao cadastrar perfil"
  /\ last.done
  /\ ~last.rejected
  /\ errors = <<>>

\* C9 (as stated): a screen never has two requests in flight together
C9_OneRequestPerScreen ==
  \A s \in Screens :
    Cardinality({r \in requests : r.screen = s /\ r.status = "pending"}) <= 1

\* C9 (amended): every submission and every avatar change has at most one
\* request of its own, and a handler is waiting exactly while its request is
\* outstanding
C9_OneRequestPerSubmission ==
  /\ last.sent <= 1
  /\ \A slot \in Slots :
       /\ Cardinality({r \in requests : r.slot = slot}) <= 1
       /\ (handlers[slot] = Idle) = ({r \in requests : r.slot = slot} = {})
       /\ \A r \in requests : r.slot = slot => r.screen = handlers[slot].screen

\* two submissions of one screen have their requests in flight together
C9_Witness ==
  \E r1, r2 \in SubmitRequests :
    /\ r1 # r2
    /\ r1.screen = r2.screen
    /\ r1.status = "pending"
    /\ r2.status = "pending"

\* C10: the sign-in handler puts the error on 'name' before it validates;
\* a valid submission leaves exactly that error, an invalid one replaces it
\* by the errors of the validation
C10_SignInNameError ==
  page = "SignIn" =>
    /\ signInPc = "validate" => errors = [name |-> "Nome obrigatório"]
    /\ (last.done /\ ValidateSignIn(fields) = <<>>) =>
         errors = [name |-> "Nome obrigatório"]
    /\ (last.done /\ ValidateSignIn(fields) # <<>>) =>
         /\ errors # <<>>
         /\ DOMAIN errors \subseteq {"email", "password"}
         /\ \A p \in DOMAIN errors :
              \E i \in 1..Len(ValidateSignIn(fields)) :
                ValidateSignIn(fields)[i] = [path |-> p, message |-> errors[p]]

\* a valid sign-in was handled and the form shows the error on 'name'
C10_Witness ==
  /\ page = "SignIn"
  /\ last.done
  /\ ValidateSignIn(fields) = <<>>
  /\ fields.email # Empty
  /\ errors = [name |-> "Nome obrigatório"]

====
